---- MODULE Spec2Model ----
(***************************************************************************)
(* BlenderKit batch add-on: the module locator (bmodule_finder.py), the    *)
(* import block, register/unregister, the two batch operators and the two  *)
(* task callbacks (__init__.py).                                           *)
(*                                                                         *)
(* Time and task_delay are counted in units of 0.1 s (the property's       *)
(* minimum).  A dotted import path is the sequence of its components;       *)
(* Python's None is the empty sequence (both are falsy at line 45).        *)
(***************************************************************************)
EXTENDS Integers, Sequences, FiniteSets, TLC

VARIABLES
    bl_ext,               \* the bl_ext package: importable or not, and its dir() listing
    addon_paths,          \* per add-on script path: what lies at <path>/blenderkit
    importable,           \* importlib.import_module of the host submodules succeeds
    loaded,               \* the import block (lines 38-62) has run
    bk_module_name,       \* result of find_module("blenderkit")
    BLENDERKIT_AVAILABLE,
    registered,           \* classes currently registered with bpy
    scene_prop,           \* bpy.types.Scene.blenderkit_batch_props exists
    objects,              \* bpy.data.objects: name -> object attributes
    bk,                   \* name -> the object's .blenderkit properties that are read
    props,                \* scene.blenderkit_batch_props (BlenderKitBatchProperties)
    tasks,                \* bk_tasks_queue: the tasks added and not yet run, each
                          \* with the wait it has left
    last                  \* the last call of an add-on function: its arguments, how
                          \* it ended and the host add-on functions it called

vars == <<bl_ext, addon_paths, importable, loaded, bk_module_name,
          BLENDERKIT_AVAILABLE, registered, scene_prop, objects, bk, props,
          tasks, last>>

envVars == <<bl_ext, addon_paths, importable>>
loadVars == <<loaded, bk_module_name, BLENDERKIT_AVAILABLE>>
regVars == <<registered, scene_prop>>

(***************************************************************************)
(* Bounds of the model                                                     *)
(***************************************************************************)
MaxPaths == 2      \* add-on script paths
MaxDelay == 2      \* largest task_delay, in units of 0.1 s
MaxQueue == 3      \* tasks pending in the host queue
MaxLate == 2       \* how long (in 0.1 s) the queue worker leaves a due task waiting

None == << >>

\* what `last` records of a call; writes: the status properties of the model
\* (which the add-on sets and never reads) as the call left them
Ended(call, args, result, host_calls) ==
    [call |-> call, args |-> args, result |-> result, report |-> "",
     writes |-> << >>, host_calls |-> host_calls]

Wrote(call, args, result, writes, host_calls) ==
    [call |-> call, args |-> args, result |-> result, report |-> "",
     writes |-> writes, host_calls |-> host_calls]

\* an operator's execute: the set it returns and the level of its self.report
Executed(call, result, report) ==
    [call |-> call, args |-> << >>, result |-> result, report |-> report,
     writes |-> << >>, host_calls |-> << >>]

(***************************************************************************)
(* bmodule_finder.find_module                                               *)
(***************************************************************************)
\* str.startswith("__") on the names the model uses
StartsWithDunder(n) == n \in {"__path__", "__doc__"}

\* lines 41-50: an attribute is tried unless it is a dunder; getattr or
\* hasattr raising is swallowed
AttrHit(a) == ~StartsWithDunder(a.name) /\ ~a.raises /\ a.has

\* lines 41-47: index of the first attribute (from i on) holding the module,
\* 0 if none
RECURSIVE FirstAttrHit(_, _)
FirstAttrHit(attrs, i) ==
    IF i > Len(attrs) THEN 0
    ELSE IF AttrHit(attrs[i]) THEN i
    ELSE FirstAttrHit(attrs, i + 1)

\* lines 22-53 for one extension namespace: the path returned from inside the
\* loop body, or None when the loop goes on to the next namespace
CheckNamespace(ns, module_name) ==
    IF StartsWithDunder(ns.name) THEN None                      \* line 23
    ELSE IF ns.raises THEN None                                 \* lines 29-33, 51
    ELSE IF ns.direct THEN <<"bl_ext", ns.name, module_name>>   \* lines 37-39
    ELSE LET j == FirstAttrHit(ns.attrs, 1) IN                  \* lines 41-47
         IF j # 0 THEN <<"bl_ext", ns.name, ns.attrs[j].name, module_name>>
         ELSE None

\* lines 22-53: the loop over dir(bl_ext)
RECURSIVE SearchExtensions(_, _, _)
SearchExtensions(mods, i, module_name) ==
    IF i > Len(mods) THEN None
    ELSE LET r == CheckNamespace(mods[i], module_name) IN
         IF r # None THEN r ELSE SearchExtensions(mods, i + 1, module_name)

\* os.path.exists(os.path.join(path, module_name)): true of any kind of entry
PathExists(entry) == entry # "absent"

\* lines 62-67: the loop over the add-on script paths
RECURSIVE SearchAddonPaths(_, _, _)
SearchAddonPaths(paths, i, module_name) ==
    IF i > Len(paths) THEN None
    ELSE IF PathExists(paths[i]) THEN <<module_name>>
    ELSE SearchAddonPaths(paths, i + 1, module_name)

\* find_module looking in the add-on script paths before the extensions
FindModuleLegacyFirst(ext, paths, module_name) ==
    LET r == SearchAddonPaths(paths, 1, module_name)
    IN IF r # None THEN r
       ELSE IF ~ext.present THEN None
       ELSE SearchExtensions(ext.mods, 1, module_name)

\* lines 9-70
find_module(ext, paths, module_name) ==
    LET r == IF ~ext.present THEN None                          \* lines 54-56
             ELSE SearchExtensions(ext.mods, 1, module_name)
    IN IF r # None THEN r ELSE SearchAddonPaths(paths, 1, module_name)

(***************************************************************************)
(* The environments find_module is run in                                  *)
(***************************************************************************)
Attr(n, h, r) == [name |-> n, has |-> h, raises |-> r]

Namespace(n, d, r, as) == [name |-> n, direct |-> d, raises |-> r, attrs |-> as]

\* a listing: the entries that are present, in dir()'s (sorted) order
Present(seq) == SelectSeq(seq, LAMBDA e : e.name # "")

Missing == [name |-> ""]

AttrListings ==
    { Present(<<a1, a2, a3>>) :
        a1 \in {Missing, Attr("__doc__", TRUE, FALSE)},
        a2 \in {Missing, Attr("addons", FALSE, FALSE), Attr("addons", TRUE, FALSE),
                Attr("addons", TRUE, TRUE)},
        a3 \in {Missing, Attr("vendor", TRUE, FALSE)} }

ExtListings ==
    { Present(<<n1, n2, n3>>) :
        n1 \in {Missing, Namespace("__path__", TRUE, FALSE, << >>)},
        n2 \in {Missing} \cup
               { Namespace("blender_org", d, r, as) :
                   d \in BOOLEAN, r \in BOOLEAN, as \in AttrListings },
        n3 \in {Missing} \cup
               { Namespace("user_default", d, FALSE, as) :
                   d \in BOOLEAN,
                   as \in {<< >>, <<Attr("addons", TRUE, FALSE)>>} } }

NoBlExt == [present |-> FALSE, mods |-> << >>]

BlExts == {NoBlExt} \cup { [present |-> TRUE, mods |-> m] : m \in ExtListings }

PathKinds == {"absent", "dir", "file"}

AddonPathLists == UNION { [1..n -> PathKinds] : n \in 0..MaxPaths }

(***************************************************************************)
(* The import block, lines 38-62                                           *)
(***************************************************************************)
ImportModule ==
    /\ ~loaded
    /\ LET name == find_module(bl_ext, addon_paths, "blenderkit") IN
       /\ bk_module_name' = name                                  \* line 44
       /\ BLENDERKIT_AVAILABLE' =
            IF name = None THEN FALSE                             \* lines 45-46, 56-61
            ELSE importable                                       \* lines 49-55
    /\ loaded' = TRUE
    /\ last' = Ended("import", << >>, "returned", << >>)
    /\ UNCHANGED <<envVars, regVars, objects, bk, props, tasks>>

(***************************************************************************)
(* register / unregister, lines 750-795                                    *)
(***************************************************************************)
classes == <<"BlenderKitBatchProperties", "BK_BATCH_OT_render_thumbnails",
             "BK_BATCH_OT_upload_models", "BK_BATCH_PT_panel">>

AllClasses == { classes[i] : i \in 1..Len(classes) }

\* the class attribute bl_idname; the property group defines none
HasBlIdname(cls) == cls # "BlenderKitBatchProperties"

bl_idname(cls) ==
    CASE cls = "BK_BATCH_OT_render_thumbnails" -> "bk_batch.render_thumbnails"
      [] cls = "BK_BATCH_OT_upload_models" -> "bk_batch.upload_models"
      [] cls = "BK_BATCH_PT_panel" -> "BK_BATCH_PT_panel"

\* the name a registered class goes by in bpy.types: an operator's is built
\* from its bl_idname ("bk_batch.upload_models" -> "BK_BATCH_OT_upload_models")
RnaIdentifier(cls) == cls

\* hasattr(bpy.types, name)
TypesHas(reg, name) == \E c \in reg : RnaIdentifier(c) = name

\* hasattr(bpy, name): the bpy module's own attributes
BpyHas(name) ==
    name \in {"app", "context", "data", "msgbus", "ops", "path", "props",
              "types", "utils"}

\* lines 764-765: bpy.utils.register_class raises ValueError for a class that
\* is registered already
RECURSIVE RegisterLoop(_, _)
RegisterLoop(i, reg) ==
    IF i > Len(classes) THEN [reg |-> reg, result |-> "returned"]
    ELSE IF classes[i] \in reg THEN [reg |-> reg, result |-> "ValueError"]
    ELSE RegisterLoop(i + 1, reg \cup {classes[i]})

\* register() without the test of lines 759-762
RegisterWithoutHost ==
    /\ loaded
    /\ LET r == RegisterLoop(1, registered) IN
       /\ registered' = r.reg
       /\ scene_prop' = IF r.result = "returned" THEN TRUE ELSE scene_prop
       /\ last' = Ended("register", << >>, r.result, << >>)
    /\ UNCHANGED <<envVars, loadVars, objects, bk, props, tasks>>

Register ==
    /\ loaded
    /\ IF ~BLENDERKIT_AVAILABLE
       THEN /\ last' = Ended("register", << >>, "returned", << >>)   \* lines 759-762
            /\ UNCHANGED regVars
       ELSE LET r == RegisterLoop(1, registered) IN
            /\ registered' = r.reg
            /\ scene_prop' = IF r.result = "returned" THEN TRUE ELSE scene_prop
            /\ last' = Ended("register", << >>, r.result, << >>)
    /\ UNCHANGED <<envVars, loadVars, objects, bk, props, tasks>>

\* lines 786-795: the loop over reversed(classes)
RECURSIVE UnregisterLoop(_, _)
UnregisterLoop(i, reg) ==
    IF i < 1 THEN [reg |-> reg, result |-> "returned"]
    ELSE LET cls == classes[i] IN
         IF ~HasBlIdname(cls)
         THEN [reg |-> reg, result |-> "AttributeError"]          \* line 788
         ELSE IF TypesHas(reg, bl_idname(cls))
         THEN UnregisterLoop(i - 1, reg \ {cls})                  \* line 789
         ELSE IF BpyHas(cls)
         THEN UnregisterLoop(i - 1, reg \ {cls})                  \* lines 790-795
         ELSE UnregisterLoop(i - 1, reg)

Unregister ==
    /\ loaded
    /\ IF ~scene_prop                                             \* line 774
       THEN /\ last' = Ended("unregister", << >>, "returned", << >>)
            /\ UNCHANGED regVars
       ELSE IF ~BLENDERKIT_AVAILABLE
               /\ ~TypesHas(registered, bl_idname("BK_BATCH_PT_panel"))
       THEN /\ last' = Ended("unregister", << >>, "returned", << >>)  \* lines 776-782
            /\ UNCHANGED regVars
       ELSE LET r == UnregisterLoop(Len(classes), registered) IN
            /\ scene_prop' = FALSE                                \* line 784
            /\ registered' = r.reg
            /\ last' = Ended("unregister", << >>, r.result, << >>)
    /\ UNCHANGED <<envVars, loadVars, objects, bk, props, tasks>>

(***************************************************************************)
(* The scene                                                               *)
(***************************************************************************)
\* bpy.data.objects, in the order collections list them
ObjOrder == <<"A", "B", "C">>

Objects == { ObjOrder[i] : i \in 1..Len(ObjOrder) }

\* FloatProperty(min=0.1), line 425, in units of 0.1 s
MinDelay == 1

\* a sequence without the element at position i
RemoveAt(seq, i) == SubSeq(seq, 1, i - 1) \o SubSeq(seq, i + 1, Len(seq))

(***************************************************************************)
(* The batch operators, lines 463-649                                      *)
(***************************************************************************)
\* lines 513-521 and 614-622, without the test of obj.parent
IsBatchModelAnyLevel(o) ==
    /\ objects[o].in_collection
    /\ objects[o].has_blenderkit
    /\ \/ bk[o].name # ""
       \/ bk[o].asset_base_id # ""
       \/ objects[o].instance_collection

\* lines 511-522 and 613-623: the test an object of the target collection passes
IsBatchModel(o) ==
    /\ objects[o].in_collection                  \* props.target_collection.objects
    /\ objects[o].parent = ""                    \* obj.parent is None
    /\ objects[o].has_blenderkit                 \* hasattr(obj, "blenderkit")
    /\ \/ bk[o].name # ""
       \/ bk[o].asset_base_id # ""
       \/ objects[o].instance_collection

\* lines 497-528 and 601-629: models_to_process; sel is what the host's
\* get_selected_models() returns
ModelsToProcess(sel) ==
    IF props.target_mode = "SELECTED" THEN sel
    ELSE SelectSeq(ObjOrder, IsBatchModel)

\* what the host's get_selected_models() may return (line 499): top-level
\* objects carrying blenderkit data
SelectedLists ==
    { SelectSeq(ObjOrder, LAMBDA o : o \in S) :
        S \in SUBSET { o \in Objects :
                         objects[o].has_blenderkit /\ objects[o].parent = "" } }

\* line 640 reading the flag the wrong way round
IsReuploadInverted(o) == bk[o].asset_base_id = ""

\* line 640
IsReupload(o) == bk[o].asset_base_id # ""

\* lines 541 and 641 counting from 1
DelayFromOne(index) == (index + 1) * props.task_delay

\* lines 541 and 641: index is 0-based
Delay(index) == index * props.task_delay

\* the task bk_tasks_queue.add_task((command, args), wait=delay) puts in the queue
Task(command, args, wait) ==
    [command |-> command, args |-> args, wait |-> wait]

\* lines 540-544
RenderTasks(models) ==
    [i \in 1..Len(models) |->
        Task("_trigger_thumbnail_render", <<models[i]>>, Delay(i - 1))]

\* lines 638-644
UploadTasks(models) ==
    [i \in 1..Len(models) |->
        Task("_trigger_upload", <<models[i], IsReupload(models[i])>>, Delay(i - 1))]

\* lines 494-549 and 598-649: the part the two execute methods share; new_tasks
\* are the tasks the queue loop adds for the models to process
Queue(call, sel, new_tasks) ==
    IF ~scene_prop
    THEN /\ last' = Executed(call, "AttributeError", "")          \* lines 494, 598
         /\ UNCHANGED tasks
    ELSE IF props.target_mode = "COLLECTION" /\ ~props.target_collection
    THEN /\ last' = Executed(call, "CANCELLED", "ERROR")          \* lines 507-509
         /\ UNCHANGED tasks
    ELSE IF ModelsToProcess(sel) = << >>
    THEN /\ last' = Executed(call, "CANCELLED", "WARNING")        \* lines 500-505, 523-532
         /\ UNCHANGED tasks
    ELSE /\ tasks' = tasks \o new_tasks
         /\ last' = Executed(call, "FINISHED", "INFO")

\* BK_BATCH_OT_render_thumbnails.execute; saved: bpy.data.filepath is not empty
ExecRender(saved, sel) ==
    /\ loaded
    /\ Len(tasks) + Len(ModelsToProcess(sel)) <= MaxQueue
    /\ IF ~BLENDERKIT_AVAILABLE
       THEN /\ last' = Executed("render_thumbnails", "CANCELLED", "ERROR")  \* 487-489
            /\ UNCHANGED tasks
       ELSE IF ~saved
       THEN /\ last' = Executed("render_thumbnails", "CANCELLED", "ERROR")  \* 490-492
            /\ UNCHANGED tasks
       ELSE Queue("render_thumbnails", sel, RenderTasks(ModelsToProcess(sel)))
    /\ UNCHANGED <<envVars, loadVars, regVars, objects, bk, props>>

\* BK_BATCH_OT_upload_models.execute; logged_in: the host add-on's api_key is set
ExecUpload(logged_in, sel) ==
    /\ loaded
    /\ Len(tasks) + Len(ModelsToProcess(sel)) <= MaxQueue
    /\ IF ~BLENDERKIT_AVAILABLE
       THEN /\ last' = Executed("upload_models", "CANCELLED", "ERROR")      \* 585-587
            /\ UNCHANGED tasks
       ELSE IF ~logged_in
       THEN /\ last' = Executed("upload_models", "CANCELLED", "ERROR")      \* 590-596
            /\ UNCHANGED tasks
       ELSE Queue("upload_models", sel, UploadTasks(ModelsToProcess(sel)))
    /\ UNCHANGED <<envVars, loadVars, regVars, objects, bk, props>>

(***************************************************************************)
(* The task callbacks, lines 167-393                                       *)
(***************************************************************************)
\* what a callback finds outside the add-on when it runs
RenderEnvs ==
    [saved : BOOLEAN,                 \* bpy.data.filepath is not empty
     fail : {"none", "mkdtemp", "save_as_mainfile", "start_model_thumbnailer"}]

UploadEnvs ==
    [saved : BOOLEAN,
     thumbnail_exists : BOOLEAN,      \* os.path.exists of the thumbnail's path
     fail : {"none", "get_hierarchy", "save_as_mainfile", "asset_upload"}]

EnvsOf(command) ==
    IF command = "_trigger_thumbnail_render" THEN RenderEnvs ELSE UploadEnvs

\* bpy.data.objects.get(model_name)
Found(model_name) == model_name \in Objects

\* lines 186-260: the object's properties afterwards, the status written, the
\* host calls
RenderOutcome(model_name, env) ==
    LET b == bk[model_name]
        failed == <<"is_generating_thumbnail", "False",               \* lines 254-256
                    "thumbnail_generating_state", "Error">>
        call == [fn |-> "start_model_thumbnailer", asset_name |-> model_name]
    IN
    IF env.fail = "mkdtemp"                                           \* line 192
    THEN [bk |-> b, writes |-> failed, host_calls |-> << >>]
    ELSE IF env.fail = "save_as_mainfile"                             \* lines 221-223
    THEN [bk |-> [b EXCEPT !.thumbnail = "//thumb.jpg"],              \* line 216
          writes |-> failed, host_calls |-> << >>]
    ELSE IF env.fail = "start_model_thumbnailer"
    THEN [bk |-> [b EXCEPT !.thumbnail = "//thumb.jpg"],
          writes |-> failed, host_calls |-> <<call>>]
    ELSE [bk |-> [b EXCEPT !.thumbnail = "//thumb.jpg"],
          writes |-> <<"is_generating_thumbnail", "True",             \* lines 188, 217
                       "thumbnail_generating_state", "Saving temp .blend file (batch)">>,
          host_calls |-> <<call>>]                                    \* lines 249-251

\* _trigger_thumbnail_render(model_name)
TriggerRender(model_name, env) ==
    LET args == <<model_name>> IN
    IF ~BLENDERKIT_AVAILABLE                                          \* lines 169-170
    THEN /\ last' = Ended("_trigger_thumbnail_render", args, "returned", << >>)
         /\ UNCHANGED bk
    ELSE IF ~Found(model_name)                                        \* lines 172-175
    THEN /\ last' = Ended("_trigger_thumbnail_render", args, "returned", << >>)
         /\ UNCHANGED bk
    ELSE IF ~env.saved                                                \* lines 178-184
    THEN /\ last' = Ended("_trigger_thumbnail_render", args, "returned", << >>)
         /\ UNCHANGED bk
    ELSE IF ~objects[model_name].has_blenderkit                       \* line 186
    THEN /\ last' = Ended("_trigger_thumbnail_render", args, "AttributeError", << >>)
         /\ UNCHANGED bk
    ELSE LET r == RenderOutcome(model_name, env) IN
         /\ bk' = [bk EXCEPT ![model_name] = r.bk]
         /\ last' = Wrote("_trigger_thumbnail_render", args, "returned", r.writes,
                          r.host_calls)

Components == <<"METADATA", "THUMBNAIL", "MAINFILE">>

\* lines 286-295 reading the toggles for a new upload too
UploadSetTogglesOnly(is_reupload) ==
    SelectSeq(Components,
              LAMBDA c : \/ c = "METADATA" /\ props.reupload_metadata
                         \/ c = "THUMBNAIL" /\ props.reupload_thumbnail
                         \/ c = "MAINFILE" /\ props.reupload_main_file)

\* lines 286-295
UploadSet(is_reupload) ==
    IF ~is_reupload THEN Components
    ELSE SelectSeq(Components,
                   LAMBDA c : \/ c = "METADATA" /\ props.reupload_metadata
                              \/ c = "THUMBNAIL" /\ props.reupload_thumbnail
                              \/ c = "MAINFILE" /\ props.reupload_main_file)

Has(seq, x) == \E i \in 1..Len(seq) : seq[i] = x

\* lines 280-393: the object's properties afterwards, the status written, the
\* host calls
UploadOutcome(model_name, is_reupload, env) ==
    LET b == bk[model_name]
        upload_set == UploadSet(is_reupload)
        stopped(state) ==
            [bk |-> [b EXCEPT !.uploading = FALSE],
             writes |-> <<"upload_state", state>>, host_calls |-> << >>]
        call == [fn |-> "asset_upload", asset_name |-> model_name,
                 assetId |-> IF is_reupload THEN b.asset_base_id ELSE "",   \* line 334
                 upload_set |-> upload_set]
    IN
    IF upload_set = << >>                                             \* lines 297-303
    THEN stopped("Skipped: No re-upload options selected.")
    ELSE IF Has(upload_set, "THUMBNAIL")
            /\ (b.thumbnail = "" \/ ~env.thumbnail_exists)            \* lines 308-320
    THEN stopped("Error: Thumbnail selected for upload but not found or path invalid.")
    ELSE IF env.fail = "get_hierarchy"                                \* lines 323-330
    THEN stopped("Error: Failed to gather upload data.")
    ELSE IF Has(upload_set, "MAINFILE") /\ ~env.saved                 \* lines 340-346
    THEN stopped("Error: Please save the main blend file first.")
    ELSE IF Has(upload_set, "MAINFILE") /\ env.fail = "save_as_mainfile"   \* lines 361-371
    THEN stopped("Error saving temp file")
    ELSE IF env.fail = "asset_upload"                                 \* lines 380-382
    THEN [bk |-> [b EXCEPT !.uploading = FALSE],
          writes |-> <<"upload_state", "Error">>, host_calls |-> <<call>>]
    ELSE [bk |-> [b EXCEPT !.uploading = TRUE],                       \* lines 281, 375-376
          writes |-> <<"upload_state", "1% - Sending to background uploader (batch)">>,
          host_calls |-> <<call>>]

\* _trigger_upload(model_name, is_reupload)
TriggerUpload(model_name, is_reupload, env) ==
    LET args == <<model_name, is_reupload>> IN
    IF ~BLENDERKIT_AVAILABLE                                          \* lines 265-266
    THEN /\ last' = Ended("_trigger_upload", args, "returned", << >>)
         /\ UNCHANGED bk
    ELSE IF ~scene_prop                                               \* line 269
    THEN /\ last' = Ended("_trigger_upload", args, "AttributeError", << >>)
         /\ UNCHANGED bk
    ELSE IF ~Found(model_name) \/ ~objects[model_name].has_blenderkit \* lines 270-275
    THEN /\ last' = Ended("_trigger_upload", args, "returned", << >>)
         /\ UNCHANGED bk
    ELSE LET r == UploadOutcome(model_name, is_reupload, env) IN
         /\ bk' = [bk EXCEPT ![model_name] = r.bk]
         /\ last' = Wrote("_trigger_upload", args, "returned", r.writes, r.host_calls)

(***************************************************************************)
(* The host: its task queue, its clock, its uploader, and the user         *)
(***************************************************************************)
\* the host's queue worker runs a task whose wait has passed
RunTask(i, env) ==
    /\ loaded
    /\ i \in 1..Len(tasks)
    /\ tasks[i].wait <= 0
    /\ tasks' = RemoveAt(tasks, i)
    /\ IF tasks[i].command = "_trigger_thumbnail_render"
       THEN TriggerRender(tasks[i].args[1], env)
       ELSE TriggerUpload(tasks[i].args[1], tasks[i].args[2], env)
    /\ UNCHANGED <<envVars, loadVars, regVars, objects, props>>

\* the callbacks are plain module functions: any caller may call them
CallTriggerRender(model_name, env) ==
    /\ loaded
    /\ TriggerRender(model_name, env)
    /\ UNCHANGED <<envVars, loadVars, regVars, objects, props, tasks>>

CallTriggerUpload(model_name, is_reupload, env) ==
    /\ loaded
    /\ TriggerUpload(model_name, is_reupload, env)
    /\ UNCHANGED <<envVars, loadVars, regVars, objects, props, tasks>>

\* 0.1 s passes while some task still waits: every wait is 0.1 s shorter (a
\* wait below 0 is a task the worker has not got round to yet)
Tick ==
    /\ \E i \in 1..Len(tasks) : tasks[i].wait > 0
    /\ \A i \in 1..Len(tasks) : tasks[i].wait > -MaxLate
    /\ tasks' = [i \in 1..Len(tasks) |-> [tasks[i] EXCEPT !.wait = @ - 1]]
    /\ UNCHANGED <<envVars, loadVars, regVars, objects, bk, props, last>>

\* the host's uploader finishes an upload the add-on handed to it (lines
\* 377-378): the asset now has an asset_base_id
UploadFinished(o) ==
    /\ bk[o].uploading
    /\ bk' = [bk EXCEPT ![o].uploading = FALSE, ![o].asset_base_id = "id"]
    /\ UNCHANGED <<envVars, loadVars, regVars, objects, props, tasks, last>>

\* the panel's widgets, lines 703-716
SetTarget(mode, collection) ==
    /\ scene_prop
    /\ <<mode, collection>> # <<props.target_mode, props.target_collection>>
    /\ props' = [props EXCEPT !.target_mode = mode, !.target_collection = collection]
    /\ UNCHANGED <<envVars, loadVars, regVars, objects, bk, tasks, last>>

\* one of the three re-upload checkboxes is clicked
SetReupload(option) ==
    /\ scene_prop
    /\ props' = [props EXCEPT ![option] = ~@]
    /\ UNCHANGED <<envVars, loadVars, regVars, objects, bk, tasks, last>>

(***************************************************************************)
(* Initial states                                                          *)
(***************************************************************************)
Obj(parent, has_blenderkit, instance_collection, in_collection) ==
    [parent |-> parent, has_blenderkit |-> has_blenderkit,
     instance_collection |-> instance_collection, in_collection |-> in_collection]

Bk(name, asset_base_id, thumbnail) ==
    [name |-> name, asset_base_id |-> asset_base_id, thumbnail |-> thumbnail,
     uploading |-> FALSE]

Scene(oA, bA, oB, bB, oC, bC) ==
    [objects |-> [o \in Objects |-> CASE o = "A" -> oA [] o = "B" -> oB [] o = "C" -> oC],
     bk |-> [o \in Objects |-> CASE o = "A" -> bA [] o = "B" -> bB [] o = "C" -> bC]]

\* a new model, an uploaded model, and a third object that is a part of the
\* first model or a linked collection instance
MainScenes ==
    { Scene(Obj("", TRUE, FALSE, TRUE), Bk("chair", "", "//chair.jpg"),
            Obj("", TRUE, FALSE, TRUE), Bk("table", "id", ""),
            oC, Bk("", "", "")) :
        oC \in {Obj("A", TRUE, FALSE, TRUE), Obj("", TRUE, TRUE, TRUE)} }

\* what the import block may find
LoadEnvs ==
    { [bl_ext |-> NoBlExt, addon_paths |-> << >>, importable |-> FALSE],
      [bl_ext |-> NoBlExt, addon_paths |-> <<"dir">>, importable |-> FALSE],
      [bl_ext |-> [present |-> TRUE,
                   mods |-> <<Namespace("user_default", TRUE, FALSE, << >>)>>],
       addon_paths |-> << >>, importable |-> TRUE] }

\* the property defaults of lines 397-446; task_delay is a value kept in the file
DefaultProps(delay) ==
    [target_mode |-> "SELECTED", target_collection |-> FALSE, task_delay |-> delay,
     reupload_metadata |-> TRUE, reupload_thumbnail |-> TRUE,
     reupload_main_file |-> TRUE]

Fresh ==
    /\ loaded = FALSE
    /\ bk_module_name = None
    /\ BLENDERKIT_AVAILABLE = FALSE
    /\ registered = {}
    /\ scene_prop = FALSE
    /\ tasks = << >>
    /\ last = Ended("", << >>, "", << >>)

Init ==
    /\ \E e \in LoadEnvs :
         /\ bl_ext = e.bl_ext
         /\ addon_paths = e.addon_paths
         /\ importable = e.importable
    /\ \E s \in MainScenes : objects = s.objects /\ bk = s.bk
    /\ \E d \in MinDelay..MaxDelay : props = DefaultProps(d)
    /\ Fresh

\* find_module and the import block, over every environment of the bounds
InitFind ==
    /\ bl_ext \in BlExts
    /\ addon_paths \in AddonPathLists
    /\ importable \in BOOLEAN
    /\ \E s \in MainScenes : objects = s.objects /\ bk = s.bk
    /\ props = DefaultProps(MinDelay)
    /\ Fresh

SpecFind == InitFind /\ [][ImportModule]_vars

\* the environments in which the import block ends with the host add-on missing
InitUnavailable ==
    /\ bl_ext \in {NoBlExt, [present |-> TRUE, mods |-> << >>],
                   [present |-> TRUE,
                    mods |-> <<Namespace("user_default", TRUE, FALSE, << >>)>>]}
    /\ addon_paths \in AddonPathLists
    /\ importable \in BOOLEAN
    /\ find_module(bl_ext, addon_paths, "blenderkit") = None \/ ~importable
    /\ \E s \in MainScenes : objects = s.objects /\ bk = s.bk
    /\ props = DefaultProps(MinDelay)
    /\ Fresh

\* every function of the add-on that can be called while the host add-on is
\* missing
NextUnavailable ==
    \/ ImportModule
    \/ Register
    \/ Unregister
    \/ \E saved \in BOOLEAN, sel \in SelectedLists : ExecRender(saved, sel)
    \/ \E logged_in \in BOOLEAN, sel \in SelectedLists : ExecUpload(logged_in, sel)
    \/ \E n \in Objects \cup {"Gone"}, env \in RenderEnvs : CallTriggerRender(n, env)
    \/ \E n \in Objects \cup {"Gone"}, f \in BOOLEAN, env \in UploadEnvs :
         CallTriggerUpload(n, f, env)

SpecUnavailable == InitUnavailable /\ [][NextUnavailable]_vars

\* the add-on from its import on: loading, registration and the operators
NextLifecycle ==
    \/ ImportModule
    \/ Register
    \/ Unregister
    \/ \E saved \in BOOLEAN, sel \in SelectedLists : ExecRender(saved, sel)
    \/ \E logged_in \in BOOLEAN, sel \in SelectedLists : ExecUpload(logged_in, sel)
    \/ \E m \in {"SELECTED", "COLLECTION"}, c \in BOOLEAN : SetTarget(m, c)

SpecLifecycle == Init /\ [][NextLifecycle]_vars

\* the state register() leaves when the host add-on was found and imported
Registered ==
    /\ \E e \in LoadEnvs :
         /\ e.importable
         /\ bl_ext = e.bl_ext
         /\ addon_paths = e.addon_paths
         /\ importable = e.importable
         /\ bk_module_name = find_module(e.bl_ext, e.addon_paths, "blenderkit")
    /\ loaded = TRUE
    /\ BLENDERKIT_AVAILABLE = TRUE
    /\ registered = AllClasses
    /\ scene_prop = TRUE
    /\ tasks = << >>
    /\ last = Ended("register", << >>, "returned", << >>)

\* batches queued while the add-on is registered, and their waits running down
InitQueue ==
    /\ Registered
    /\ \E s \in MainScenes : objects = s.objects /\ bk = s.bk
    /\ \E d \in MinDelay..MaxDelay : props = DefaultProps(d)

NextQueue ==
    \/ \E saved \in BOOLEAN, sel \in SelectedLists : ExecRender(saved, sel)
    \/ \E logged_in \in BOOLEAN, sel \in SelectedLists : ExecUpload(logged_in, sel)
    \/ \E m \in {"SELECTED", "COLLECTION"}, c \in BOOLEAN : SetTarget(m, c)
    \/ Tick

SpecQueue == InitQueue /\ [][NextQueue]_vars

\* upload batches queued and run while the add-on is registered
InitRun ==
    /\ Registered
    /\ \E s \in MainScenes :
         /\ s.objects["C"].parent = "A"
         /\ objects = s.objects
         /\ bk = s.bk
    /\ props = DefaultProps(MinDelay)

\* the upload operator, the queue worker and the host's uploader: a model's
\* asset_base_id changes while tasks for it wait
NextCarry ==
    \/ \E logged_in \in BOOLEAN, sel \in SelectedLists : ExecUpload(logged_in, sel)
    \/ \E i \in 1..Len(tasks) : \E env \in EnvsOf(tasks[i].command) : RunTask(i, env)
    \/ \E o \in Objects : UploadFinished(o)
    \/ Tick

SpecCarry == InitRun /\ [][NextCarry]_vars

\* the upload operator, the queue worker and the user at the re-upload
\* checkboxes: the toggles change while tasks wait
NextToggle ==
    \/ \E logged_in \in BOOLEAN, sel \in SelectedLists : ExecUpload(logged_in, sel)
    \/ \E i \in 1..Len(tasks) : \E env \in EnvsOf(tasks[i].command) : RunTask(i, env)
    \/ \E option \in {"reupload_metadata", "reupload_thumbnail", "reupload_main_file"} :
         SetReupload(option)
    \/ Tick

SpecToggle == InitRun /\ [][NextToggle]_vars

\* the operators over every scene of the bounds, the target being a collection
Profiles(parents) ==
    { [o |-> Obj(p, h, i, c), b |-> Bk(n, a, "")] :
        p \in parents, h \in BOOLEAN, i \in BOOLEAN, c \in BOOLEAN,
        n \in {"", "name"}, a \in {"", "id"} }

\* an object without blenderkit data has no blenderkit properties to set
Sensible(pr) == pr.o.has_blenderkit \/ (pr.b.name = "" /\ pr.b.asset_base_id = "")

AllScenes ==
    { Scene(pA.o, pA.b, pB.o, pB.b, pC.o, pC.b) :
        pA \in { pr \in Profiles({""}) : Sensible(pr) },
        pB \in { pr \in Profiles({"", "A"}) : Sensible(pr) },
        pC \in { pr \in Profiles({"", "B"}) : Sensible(pr) /\ pr.o.in_collection } }

InitCollection ==
    /\ Registered
    /\ \E s \in AllScenes : objects = s.objects /\ bk = s.bk
    /\ props = [DefaultProps(MinDelay) EXCEPT !.target_mode = "COLLECTION",
                                              !.target_collection = TRUE]

NextCollection ==
    \/ \E saved \in BOOLEAN : ExecRender(saved, << >>)
    \/ \E logged_in \in BOOLEAN : ExecUpload(logged_in, << >>)

SpecCollection == InitCollection /\ [][NextCollection]_vars

(***************************************************************************)
(* The claims                                                              *)
(***************************************************************************)
\* the tasks a step has appended to the queue
Appended == Len(tasks') > Len(tasks) /\ SubSeq(tasks', 1, Len(tasks)) = tasks

NewTask(i) == tasks'[Len(tasks) + 1 + i]

\* C1: when an operator finishes, the task it queues for the model at 0-based
\* position i has wait = i * task_delay: the first waits 0 and each next one
\* task_delay longer than the one before it.
C1_WaitIsIndexTimesDelay ==
    [][ (Appended /\ last'.result = "FINISHED") =>
          /\ NewTask(0).wait = 0
          /\ \A i \in 0..(Len(tasks') - Len(tasks) - 1) :
                /\ NewTask(i).wait = i * props.task_delay
                /\ i > 0 => NewTask(i).wait - NewTask(i - 1).wait = props.task_delay
      ]_vars

\* a batch of three has been queued with a delay of 0.2 s
C1_Witness ==
    /\ last.result = "FINISHED"
    /\ Len(tasks) = 3
    /\ props.task_delay = 2
    /\ tasks[3].wait = 4
    /\ tasks[1].command = tasks[3].command

\* C2: no two render or upload tasks in the queue come due at the same time,
\* whatever executions of the two operators queued them.
C2_NoTwoTasksDueTogether ==
    \A i \in 1..Len(tasks), j \in 1..Len(tasks) :
        i # j => tasks[i].wait # tasks[j].wait

\* C3: an upload task is queued as a re-upload exactly when the model's
\* asset_base_id is non-empty at that moment, and the task keeps its model and
\* flag while it waits and hands them to _trigger_upload when it runs.
C3_ReuploadFlag ==
    [][ /\ Appended =>
           \A i \in 0..(Len(tasks') - Len(tasks) - 1) :
              NewTask(i).command = "_trigger_upload" =>
                 NewTask(i).args[2] = (bk[NewTask(i).args[1]].asset_base_id # "")
        /\ Len(tasks') = Len(tasks) =>
           \A i \in 1..Len(tasks) : tasks'[i].args = tasks[i].args
        /\ Len(tasks') < Len(tasks) =>
           \E i \in 1..Len(tasks) :
              /\ tasks' = RemoveAt(tasks, i)
              /\ last'.call = tasks[i].command
              /\ last'.args = tasks[i].args
      ]_vars

\* a model queued as a new upload got its asset_base_id while the task waited
C3_Witness ==
    \E i \in 1..Len(tasks) :
        /\ tasks[i].command = "_trigger_upload"
        /\ tasks[i].args[2] = FALSE
        /\ bk[tasks[i].args[1]].asset_base_id # ""

\* the components named in a call of the host's asset_upload
Uploaded(call) == { call.upload_set[i] : i \in 1..Len(call.upload_set) }

\* the re-upload toggle of a component
ToggleOn(c) ==
    CASE c = "METADATA" -> props.reupload_metadata
      [] c = "THUMBNAIL" -> props.reupload_thumbnail
      [] c = "MAINFILE" -> props.reupload_main_file

\* C4: whenever a queued _trigger_upload hands a model to the host's
\* asset_upload, the components it names are all three for a new upload, and for
\* a re-upload exactly those whose toggle is on when the task runs.
C4_UploadSet ==
    [][ (Len(tasks') < Len(tasks) /\ last'.call = "_trigger_upload"
            /\ last'.host_calls # << >>) =>
          LET call == last'.host_calls[1]
              on == { c \in {"METADATA", "THUMBNAIL", "MAINFILE"} : ToggleOn(c) }
          IN /\ Len(last'.host_calls) = 1
             /\ call.fn = "asset_upload"
             /\ Len(call.upload_set) = Cardinality(Uploaded(call))
             /\ Uploaded(call) = IF last'.args[2] THEN on
                                 ELSE {"METADATA", "THUMBNAIL", "MAINFILE"}
      ]_vars

\* a re-upload went out with the metadata alone, the other toggles being off
C4_Witness ==
    /\ last.call = "_trigger_upload"
    /\ last.args[2] = TRUE
    /\ last.host_calls # << >>
    /\ last.host_calls[1].upload_set = <<"METADATA">>
    /\ ~props.reupload_thumbnail

\* C5: when an operator whose target is a collection gets as far as collecting
\* its models, an object gets a task if and only if it is in the target
\* collection, has no parent, has blenderkit data and has a blenderkit name, an
\* asset_base_id or an instance collection.
C5_CollectionTopLevelOnly ==
    [][ (props.target_mode = "COLLECTION" /\ last'.report \in {"INFO", "WARNING"}) =>
          \A o \in Objects :
             (\E i \in Len(tasks) + 1 .. Len(tasks') : tasks'[i].args[1] = o)
             <=> /\ objects[o].in_collection
                 /\ objects[o].parent = ""
                 /\ objects[o].has_blenderkit
                 /\ (bk[o].name # "" \/ bk[o].asset_base_id # ""
                       \/ objects[o].instance_collection)
      ]_vars

\* a batch was queued from a collection holding a child that carries an asset
\* id, which got no task, and a collection instance without name or id, which did
C5_Witness ==
    /\ props.target_mode = "COLLECTION"
    /\ last.result = "FINISHED"
    /\ objects["B"].parent # "" /\ objects["B"].in_collection
    /\ bk["B"].asset_base_id # ""
    /\ \A i \in 1..Len(tasks) : tasks[i].args[1] # "B"
    /\ bk["C"].name = "" /\ bk["C"].asset_base_id = ""
    /\ \E i \in 1..Len(tasks) : tasks[i].args[1] = "C"

\* C6: while BLENDERKIT_AVAILABLE is False, register() registers no class and
\* no scene property, both operators' execute return CANCELLED with an error
\* and queue nothing, and the two callbacks return without setting any property
\* of a model or calling a function of the host add-on.
C6_HostMissing ==
    [][ (loaded' /\ ~BLENDERKIT_AVAILABLE') =>
          /\ registered' = {}
          /\ ~scene_prop'
          /\ tasks' = << >>
          /\ bk' = bk
          /\ last'.writes = << >>
          /\ last'.host_calls = << >>
          /\ last'.call \in {"render_thumbnails", "upload_models"} =>
                last'.result = "CANCELLED" /\ last'.report = "ERROR"
          /\ last'.call \in {"register", "_trigger_thumbnail_render", "_trigger_upload"} =>
                last'.result = "returned"
      ]_vars

\* _trigger_upload was called for a model of the file while the host add-on
\* was missing
C6_Witness ==
    /\ loaded
    /\ ~BLENDERKIT_AVAILABLE
    /\ last.call = "_trigger_upload"
    /\ last.args[1] \in Objects

\* the first extension namespace that holds the module, directly or in one of
\* its attributes; 0 if none does
Holds(ns) ==
    /\ ns.name \notin {"__path__", "__doc__"}
    /\ ~ns.raises
    /\ \/ ns.direct
       \/ \E j \in 1..Len(ns.attrs) :
            /\ ns.attrs[j].name \notin {"__path__", "__doc__"}
            /\ ~ns.attrs[j].raises
            /\ ns.attrs[j].has

ExpectedExtension ==
    IF ~bl_ext.present \/ ~\E i \in 1..Len(bl_ext.mods) : Holds(bl_ext.mods[i])
    THEN None
    ELSE LET i == CHOOSE i \in 1..Len(bl_ext.mods) :
                     /\ Holds(bl_ext.mods[i])
                     /\ \A k \in 1..(i - 1) : ~Holds(bl_ext.mods[k])
             ns == bl_ext.mods[i]
         IN IF ns.direct THEN <<"bl_ext", ns.name, "blenderkit">>
            ELSE LET hit(j) == /\ ns.attrs[j].name \notin {"__path__", "__doc__"}
                               /\ ~ns.attrs[j].raises
                               /\ ns.attrs[j].has
                     j == CHOOSE j \in 1..Len(ns.attrs) :
                             hit(j) /\ \A k \in 1..(j - 1) : ~hit(k)
                 IN <<"bl_ext", ns.name, ns.attrs[j].name, "blenderkit">>

\* C7 as stated: extension namespaces first (first match in order, a direct
\* match before a nested one of the same namespace); else the bare name if a
\* directory of that name lies in an add-on script path; else None.
C7_AsStated ==
    loaded =>
       bk_module_name =
          IF ExpectedExtension # None THEN ExpectedExtension
          ELSE IF \E k \in 1..Len(addon_paths) : addon_paths[k] = "dir"
          THEN <<"blenderkit">>
          ELSE None

\* C7 amended: as stated, but the fallback returns the bare name whenever
\* anything of that name, a directory or a file, lies in an add-on script path.
C7_FindModule ==
    loaded =>
       bk_module_name =
          IF ExpectedExtension # None THEN ExpectedExtension
          ELSE IF \E k \in 1..Len(addon_paths) : addon_paths[k] # "absent"
          THEN <<"blenderkit">>
          ELSE None

\* a nested match in the first namespace won over a direct match in a later
\* one and over a legacy add-on directory
C7_Witness ==
    /\ loaded
    /\ Len(bk_module_name) = 4
    /\ \E i \in 1..Len(bl_ext.mods) :
          bl_ext.mods[i].direct /\ bl_ext.mods[i].name = "user_default"
    /\ \E k \in 1..Len(addon_paths) : addon_paths[k] = "dir"

\* C8: an unregister() that follows a register() that succeeded returns without
\* raising and leaves no class registered and no scene property.
C8_UnregisterCleans ==
    [][ (last.call = "register" /\ last.result = "returned" /\ BLENDERKIT_AVAILABLE
            /\ last'.call = "unregister") =>
          /\ last'.result = "returned"
          /\ registered' = {}
          /\ ~scene_prop'
      ]_vars

====
